---- MODULE Spec2Model ----
(***************************************************************************)
(* A model of the ><> (fish) interpreter: the codebox (FishCode), the      *)
(* stack of stacks (FishStack) and the engine (Fish) of                    *)
(* src/fish_classes.py and src/fish_interpreter.py.                        *)
(*                                                                         *)
(* Characters are modelled by their code points, so chr/ord are the        *)
(* reduction modulo 65536 of FishCode.wrap and nothing else.  Values are   *)
(* integers; a cycle whose result would leave the bounds below is not      *)
(* taken (this covers `,` with a fractional quotient).                     *)
(***************************************************************************)
EXTENDS Integers, Sequences, FiniteSets, TLC

(* fish: the attributes of the Fish object, as a record (src_string alone  *)
(* after construction, all of them once initialize has run, with exc the   *)
(* exception the last cycle raised); args: the <<inp, stack>> its calls    *)
(* are given; call, returned: the state and the result of Fish.__call__;   *)
(* hist: a history of the last two cycles; prev: None during the first     *)
(* call of the engine, then what the call before this one left (the        *)
(* attributes, how it ended, what it returned and its last two cycles).    *)
VARIABLES fish, args, call, returned, hist, prev

vars == <<fish, args, call, returned, hist, prev>>

(* Python's None, and a value that is not None *)
None == <<>>

Some(v) == <<v>>

\* ------------------------------------------------------------- bounds
MaxVal == 130
MaxLen == 5
MaxFrames == 3
MaxOut == 3
MaxInitLen == 3

\* ------------------------------------------------------------- characters
OrdChars ==
  {">","<","^","v","/","\\","|","_","#","x","!","?",".","+","-","*",",",
   "%","=",")","(","'","\"",":","~","$","@","}","{","r","l","[","]","o",
   "n","i","&","g","p",";"," ","\n","0","1","2","3","4","5","6","7","8",
   "9","a","b","c","d","e","f","z"}

(* the code points of the characters the sources are written in *)
OrdTable ==
  [c \in OrdChars |->
  CASE c = ">" -> 62   [] c = "<" -> 60   [] c = "^" -> 94  [] c = "v" -> 118
    [] c = "/" -> 47   [] c = "\\" -> 92  [] c = "|" -> 124 [] c = "_" -> 95
    [] c = "#" -> 35   [] c = "x" -> 120  [] c = "!" -> 33  [] c = "?" -> 63
    [] c = "." -> 46   [] c = "+" -> 43   [] c = "-" -> 45  [] c = "*" -> 42
    [] c = "," -> 44   [] c = "%" -> 37   [] c = "=" -> 61  [] c = ")" -> 41
    [] c = "(" -> 40   [] c = "'" -> 39   [] c = "\"" -> 34 [] c = ":" -> 58
    [] c = "~" -> 126  [] c = "$" -> 36   [] c = "@" -> 64  [] c = "}" -> 125
    [] c = "{" -> 123  [] c = "r" -> 114  [] c = "l" -> 108 [] c = "[" -> 91
    [] c = "]" -> 93   [] c = "o" -> 111  [] c = "n" -> 110 [] c = "i" -> 105
    [] c = "&" -> 38   [] c = "g" -> 103  [] c = "p" -> 112 [] c = ";" -> 59
    [] c = " " -> 32   [] c = "\n" -> 10
    [] c = "0" -> 48   [] c = "1" -> 49   [] c = "2" -> 50  [] c = "3" -> 51
    [] c = "4" -> 52   [] c = "5" -> 53   [] c = "6" -> 54  [] c = "7" -> 55
    [] c = "8" -> 56   [] c = "9" -> 57   [] c = "a" -> 97  [] c = "b" -> 98
    [] c = "c" -> 99   [] c = "d" -> 100  [] c = "e" -> 101 [] c = "f" -> 102
    [] c = "z" -> 122]

ord(c) == OrdTable[c]

hexdigits == <<"0","1","2","3","4","5","6","7","8","9","a","b","c","d","e","f">>

HexChars == {ord(hexdigits[i]) : i \in 1..16}

VALID_CHARS ==
  {ord(c) : c \in {">","<","^","v","/","\\","|","_","#","x","!","?",".",
                   "+","-","*",",","%","=",")","(","'","\"",":","~","$",
                   "@","}","{","r","l","[","]","o","n","i","&","g","p",
                   ";"," "}} \cup {0} \cup HexChars

DIRECTIONS == <<"right", "left", "down", "up">>

R_FORWARD    == [right |-> "up",    left |-> "down",  down |-> "left",  up |-> "right"]
R_BACKWARD   == [right |-> "down",  left |-> "up",    down |-> "right", up |-> "left"]
R_HORIZONTAL == [right |-> "right", left |-> "left",  down |-> "up",    up |-> "down"]
R_VERTICAL   == [right |-> "left",  left |-> "right", down |-> "down",  up |-> "up"]
R_CROSS      == [right |-> "left",  left |-> "right", down |-> "up",    up |-> "down"]

\* ------------------------------------------------------------- Python helpers
Max(a, b) == IF a >= b THEN a ELSE b

SetMax(S) == CHOOSE m \in S : \A k \in S : k <= m

(* Python's %: the result has the sign of the divisor *)
PyMod(a, b) == IF b > 0 THEN a % b ELSE -((-a) % (-b))

Abs(a) == IF a >= 0 THEN a ELSE -a

(* a / b when b divides a: the float quotient, made an int by push *)
TrueDivExact(a, b) ==
  LET q == Abs(a) \div Abs(b)
  IN  IF (a >= 0) = (b > 0) THEN q ELSE -q

Reversed(seq) == [i \in 1..Len(seq) |-> seq[Len(seq) + 1 - i]]

(* start index of the Python slice seq[i:], 0-based *)
SliceStart(len, i) == IF i < 0 THEN Max(len + i, 0) ELSE IF i > len THEN len ELSE i

(* seq[i:] *)
SliceFrom(seq, i) == SubSeq(seq, SliceStart(Len(seq), i) + 1, Len(seq))

(* seq after seq[i:] = [] *)
SliceCut(seq, i) == SubSeq(seq, 1, SliceStart(Len(seq), i))

\* ------------------------------------------------------------- FishCode
(* rows of the source text: the row and column of the i-th character *)
RowOf(src, i) == Cardinality({j \in 1..(i - 1) : src[j] = "\n"})

ColOf(src, i) ==
  LET nl == {j \in 1..(i - 1) : src[j] = "\n"}
  IN  IF nl = {} THEN i - 1 ELSE i - SetMax(nl) - 1

CharIdx(src) == {i \in 1..Len(src) : src[i] # "\n"}

(* FishCode.__init__: the cells, and the bounds the two loops leave *)
FishCode_init(src) ==
  LET cells == {<<ColOf(src, i), RowOf(src, i)>> : i \in CharIdx(src)}
      at(p) == CHOOSE i \in CharIdx(src) : <<ColOf(src, i), RowOf(src, i)>> = p
  IN  [code    |-> [p \in cells |-> ord(src[at(p)])],
       min_row |-> 0,
       max_row |-> SetMax({0} \cup {RowOf(src, i) : i \in 1..(Len(src) + 1)}),
       min_col |-> 0,
       max_col |-> SetMax({0} \cup {ColOf(src, i) : i \in CharIdx(src)})]

wrap(v) == v % 65536

(* int(val): cells and stack values are integers here, never strings *)
parse_value(val) == val

parse_coord(p) == <<parse_value(p[1]), parse_value(p[2])>>

parse_char(n) == wrap(parse_value(n))

(* defaultdict(int): a cell never written reads 0 *)
FishCode_getitem(s, index) ==
  LET k == parse_coord(index)
  IN  IF k \in DOMAIN s.code THEN s.code[k] ELSE 0

get_char(s, index) == parse_char(FishCode_getitem(s, index))

bounding_box_contains(s, p) ==
  LET k == parse_coord(p)
  IN  /\ s.min_col <= k[1] /\ k[1] <= s.max_col
      /\ s.min_row <= k[2] /\ k[2] <= s.max_row

(* a write that grows the maximum bounds only *)
FishCode_setitem_max_only(s, index, val) ==
  LET k   == parse_coord(index)
      col == k[1]
      row == k[2]
      v   == parse_value(val)
  IN  [s EXCEPT
         !.code    = [q \in (DOMAIN s.code) \cup {k} |->
                        IF q = k THEN v ELSE s.code[q]],
         !.max_col = IF col > s.max_col THEN col ELSE @,
         !.max_row = IF row > s.max_row THEN row ELSE @]

FishCode_setitem(s, index, val) ==
  LET k   == parse_coord(index)
      col == k[1]
      row == k[2]
      v   == parse_value(val)
  IN  [s EXCEPT
         !.code    = [q \in (DOMAIN s.code) \cup {k} |->
                        IF q = k THEN v ELSE s.code[q]],
         !.min_col = IF col < s.min_col THEN col ELSE @,
         !.max_col = IF col < s.min_col THEN @
                     ELSE IF col > s.max_col THEN col ELSE @,
         !.min_row = IF row < s.min_row THEN row ELSE @,
         !.max_row = IF row < s.min_row THEN @
                     ELSE IF row > s.max_row THEN row ELSE @]

\* ------------------------------------------------------------- FishStack
Top(stk) == stk[Len(stk)]

FishStack_length(stk) == Len(Top(stk))

stack_count(stk) == Len(stk)

(* input is None [kind |-> "none"], a string [kind |-> "str"] or a list *)
parse_input(inp) ==
  IF inp.kind = "none" THEN <<>>
  ELSE IF inp.kind = "str" THEN [i \in 1..Len(inp.val) |-> ord(inp.val[i])]
  ELSE inp.val

(* v if v%1 else int(v), on integers *)
FishStack_push(stk, vals) ==
  [stk EXCEPT ![Len(stk)] = @ \o vals]

(* a pop without the length check: the slice takes what there is *)
FishStack_pop_unchecked(stk, n0) ==
  LET len == FishStack_length(stk)
      n   == IF n0 = None THEN len ELSE Max(0, n0[1])
  IN  [stack  |-> [stk EXCEPT ![Len(stk)] = SliceCut(@, -n)],
       popped |-> IF n # 0 THEN SliceFrom(Top(stk), -n) ELSE <<>>,
       raised |-> FALSE]

(* n0 is None or Some(n); raised: FishError, the stack untouched *)
FishStack_pop(stk, n0) ==
  LET len == FishStack_length(stk)
      n   == IF n0 = None THEN len ELSE Max(0, n0[1])
  IN  IF n > len
      THEN [stack |-> stk, popped |-> <<>>, raised |-> TRUE]
      ELSE [stack  |-> [stk EXCEPT ![Len(stk)] = SliceCut(@, -n)],
            popped |-> IF n # 0 THEN SliceFrom(Top(stk), -n) ELSE <<>>,
            raised |-> FALSE]

FishStack_add_stack(stk, fill) ==
  FishStack_push(Append(stk, <<>>), fill)

(* a del_stack that removes the frame even when it is the only one *)
FishStack_del_stack_always(stk) ==
  LET p == FishStack_pop(stk, None)
  IN  [stack  |-> SubSeq(p.stack, 1, Len(p.stack) - 1),
       popped |-> p.popped]

FishStack_del_stack(stk) ==
  LET p == FishStack_pop(stk, None)
  IN  [stack  |-> IF stack_count(p.stack) > 1
                  THEN SubSeq(p.stack, 1, Len(p.stack) - 1) ELSE p.stack,
       popped |-> p.popped]

FishStack_init(prefill) == FishStack_add_stack(<<>>, parse_input(prefill))

\* ------------------------------------------------------------- Fish handlers
(* A handler maps the engine state s (a record of the attributes, with     *)
(* exc the exception in flight and frac set by a fractional quotient) to   *)
(* the state it leaves, partial effects of a raising handler included.     *)
Raise(s) == [s EXCEPT !.exc = "FishError"]

right(s) == [s EXCEPT !.direction = "right"]

left(s) == [s EXCEPT !.direction = "left"]

down(s) == [s EXCEPT !.direction = "down"]

up(s) == [s EXCEPT !.direction = "up"]

m_forward(s) == [s EXCEPT !.direction = R_FORWARD[s.direction]]

m_backward(s) == [s EXCEPT !.direction = R_BACKWARD[s.direction]]

m_horizontal(s) == [s EXCEPT !.direction = R_HORIZONTAL[s.direction]]

m_vertical(s) == [s EXCEPT !.direction = R_VERTICAL[s.direction]]

m_cross(s) == [s EXCEPT !.direction = R_CROSS[s.direction]]

(* rnd is randint(0, 3) *)
m_random(s, rnd) == [s EXCEPT !.direction = DIRECTIONS[rnd + 1]]

tramp(s) == [s EXCEPT !.skip = TRUE]

(* a conditional trampoline that skips on a non-zero value *)
tramp_cond_inverted(s) ==
  LET p == FishStack_pop(s.stack, Some(1))
  IN  IF p.raised THEN Raise(s)
      ELSE [s EXCEPT !.stack = p.stack, !.skip = (p.popped[1] # 0)]

tramp_cond(s) ==
  LET p == FishStack_pop(s.stack, Some(1))
  IN  IF p.raised THEN Raise(s)
      ELSE [s EXCEPT !.stack = p.stack, !.skip = (p.popped[1] = 0)]

(* a jump that takes the popped pair as (row, column) *)
jump_swapped(s) ==
  LET p == FishStack_pop(s.stack, Some(2))
  IN  IF p.raised THEN Raise(s)
      ELSE [s EXCEPT !.stack = p.stack, !.pos = <<p.popped[2], p.popped[1]>>]

jump(s) ==
  LET p == FishStack_pop(s.stack, Some(2))
  IN  IF p.raised THEN Raise(s)
      ELSE [s EXCEPT !.stack = p.stack, !.pos = p.popped]

(* int(c, base=16) *)
HexValue(c) == (CHOOSE i \in 1..16 : ord(hexdigits[i]) = c) - 1

literal(s) ==
  [s EXCEPT !.stack = FishStack_push(@, <<HexValue(get_char(s, s.pos))>>)]

(* OPERATORS[c](x, y); y = 0 under , and % is ZeroDivisionError *)
ZeroDivision(c, y) == c \in {ord(","), ord("%")} /\ y = 0

Fractional(c, x, y) == c = ord(",") /\ y # 0 /\ PyMod(x, y) # 0

Operate(c, x, y) ==
  CASE c = ord("+") -> x + y
    [] c = ord("-") -> x - y
    [] c = ord("*") -> x * y
    [] c = ord(",") -> TrueDivExact(x, y)
    [] c = ord("%") -> PyMod(x, y)

(* an arithmetic that answers a division by zero with the result 0 *)
arithmetic_zero_quotient(s) ==
  LET p == FishStack_pop(s.stack, Some(2))
      c == get_char(s, s.pos)
  IN  IF p.raised THEN Raise(s)
      ELSE IF ZeroDivision(c, p.popped[2])
      THEN [s EXCEPT !.stack = FishStack_push(p.stack, <<0>>)]
      ELSE IF Fractional(c, p.popped[1], p.popped[2])
      THEN [s EXCEPT !.stack = p.stack, !.frac = TRUE]
      ELSE [s EXCEPT !.stack =
              FishStack_push(p.stack, <<Operate(c, p.popped[1], p.popped[2])>>)]

arithmetic(s) ==
  LET p == FishStack_pop(s.stack, Some(2))
      c == get_char(s, s.pos)
  IN  IF p.raised THEN Raise(s)
      ELSE IF ZeroDivision(c, p.popped[2])
      THEN Raise([s EXCEPT !.stack = p.stack])
      ELSE IF Fractional(c, p.popped[1], p.popped[2])
      THEN [s EXCEPT !.stack = p.stack, !.frac = TRUE]
      ELSE [s EXCEPT !.stack =
              FishStack_push(p.stack, <<Operate(c, p.popped[1], p.popped[2])>>)]

Compare(s, b(_, _)) ==
  LET p == FishStack_pop(s.stack, Some(2))
  IN  IF p.raised THEN Raise(s)
      ELSE [s EXCEPT !.stack =
              FishStack_push(p.stack,
                <<IF b(p.popped[1], p.popped[2]) THEN 1 ELSE 0>>)]

op_eq(x, y) == x = y

op_gt(x, y) == x > y

op_lt(x, y) == x < y

equals(s) == Compare(s, op_eq)

greater(s) == Compare(s, op_gt)

smaller(s) == Compare(s, op_lt)

single_quote(s) ==
  [s EXCEPT !.parse_mode = IF @ = None THEN Some(ord("'")) ELSE None]

double_quote(s) ==
  [s EXCEPT !.parse_mode = IF @ = None THEN Some(ord("\"")) ELSE None]

duplicate(s) ==
  LET p == FishStack_pop(s.stack, Some(1))
  IN  IF p.raised THEN Raise(s)
      ELSE [s EXCEPT !.stack = FishStack_push(p.stack, p.popped \o p.popped)]

remove(s) ==
  LET p == FishStack_pop(s.stack, Some(1))
  IN  IF p.raised THEN Raise(s) ELSE [s EXCEPT !.stack = p.stack]

swap2(s) ==
  LET p == FishStack_pop(s.stack, Some(2))
  IN  IF p.raised THEN Raise(s)
      ELSE [s EXCEPT !.stack = FishStack_push(p.stack, Reversed(p.popped))]

swap3(s) ==
  LET p == FishStack_pop(s.stack, Some(3))
  IN  IF p.raised THEN Raise(s)
      ELSE [s EXCEPT !.stack =
              FishStack_push(p.stack, <<p.popped[3], p.popped[1], p.popped[2]>>)]

shiftr(s) ==
  IF FishStack_length(s.stack) > 1
  THEN LET p == FishStack_pop(s.stack, None)
           x == SubSeq(p.popped, 1, Len(p.popped) - 1)
           y == p.popped[Len(p.popped)]
       IN  [s EXCEPT !.stack = FishStack_push(p.stack, <<y>> \o x)]
  ELSE s

(* a shiftl that rotates the way shiftr does *)
shiftl_rightwards(s) ==
  IF FishStack_length(s.stack) > 1
  THEN LET p == FishStack_pop(s.stack, None)
           x == SubSeq(p.popped, 1, Len(p.popped) - 1)
           y == p.popped[Len(p.popped)]
       IN  [s EXCEPT !.stack = FishStack_push(p.stack, <<y>> \o x)]
  ELSE s

shiftl(s) ==
  IF FishStack_length(s.stack) > 1
  THEN LET p == FishStack_pop(s.stack, None)
           x == p.popped[1]
           y == SubSeq(p.popped, 2, Len(p.popped))
       IN  [s EXCEPT !.stack = FishStack_push(p.stack, y \o <<x>>)]
  ELSE s

reverse(s) ==
  LET p == FishStack_pop(s.stack, None)
  IN  [s EXCEPT !.stack = FishStack_push(p.stack, Reversed(p.popped))]

length(s) ==
  [s EXCEPT !.stack = FishStack_push(@, <<FishStack_length(s.stack)>>)]

new_stack(s) ==
  LET p1 == FishStack_pop(s.stack, Some(1))
      p2 == FishStack_pop(p1.stack, Some(p1.popped[1]))
  IN  IF p1.raised THEN Raise(s)
      ELSE IF p2.raised THEN Raise([s EXCEPT !.stack = p1.stack])
      ELSE [s EXCEPT !.stack    = FishStack_add_stack(p2.stack, p2.popped),
                     !.register = Append(@, None)]

Fish_del_stack(s) ==
  LET d == FishStack_del_stack(s.stack)
  IN  IF stack_count(s.stack) > 1
      THEN [s EXCEPT !.stack    = FishStack_push(d.stack, d.popped),
                     !.register = SubSeq(@, 1, Len(@) - 1)]
      ELSE [s EXCEPT !.stack = d.stack, !.register = <<None>>]

out_char(s) ==
  LET p == FishStack_pop(s.stack, Some(1))
  IN  IF p.raised THEN Raise(s)
      ELSE [s EXCEPT !.stack    = p.stack,
                     !.fish_out = @ \o <<parse_char(p.popped[1])>>]

(* str(n): the decimal digits of an integer, as characters *)
RECURSIVE DecDigits(_)
DecDigits(n) ==
  IF n < 10 THEN <<ord(hexdigits[n + 1])>>
  ELSE DecDigits(n \div 10) \o <<ord(hexdigits[(n % 10) + 1])>>

str(n) == IF n < 0 THEN <<ord("-")>> \o DecDigits(-n) ELSE DecDigits(n)

(* an out_num that writes the number in front of the output *)
out_num_in_front(s) ==
  LET p == FishStack_pop(s.stack, Some(1))
  IN  IF p.raised THEN Raise(s)
      ELSE [s EXCEPT !.stack = p.stack, !.fish_out = str(p.popped[1]) \o @]

out_num(s) ==
  LET p == FishStack_pop(s.stack, Some(1))
  IN  IF p.raised THEN Raise(s)
      ELSE [s EXCEPT !.stack = p.stack, !.fish_out = @ \o str(p.popped[1])]

(* a read that takes the newest value of the queue, not the oldest *)
read_char_newest(s) ==
  IF s.fish_in # <<>>
  THEN [s EXCEPT !.stack   = FishStack_push(@, <<s.fish_in[1]>>),
                 !.fish_in = Tail(@)]
  ELSE [s EXCEPT !.stack = FishStack_push(@, <<-1>>)]

read_char(s) ==
  IF s.fish_in # <<>>
  THEN [s EXCEPT !.stack   = FishStack_push(@, <<s.fish_in[Len(s.fish_in)]>>),
                 !.fish_in = SubSeq(@, 1, Len(@) - 1)]
  ELSE [s EXCEPT !.stack = FishStack_push(@, <<-1>>)]

(* a do_register that uses the register of the first frame *)
do_register_first_frame(s) ==
  LET p == FishStack_pop(s.stack, Some(1))
  IN  IF s.register[1] = None
      THEN IF p.raised THEN Raise(s)
           ELSE [s EXCEPT !.stack = p.stack,
                          !.register[1] = Some(p.popped[1])]
      ELSE [s EXCEPT !.stack = FishStack_push(@, <<s.register[1][1]>>),
                     !.register[1] = None]

do_register(s) ==
  LET top == Len(s.register)
      p   == FishStack_pop(s.stack, Some(1))
  IN  IF s.register[top] = None
      THEN IF p.raised THEN Raise(s)
           ELSE [s EXCEPT !.stack = p.stack,
                          !.register[top] = Some(p.popped[1])]
      ELSE [s EXCEPT !.stack = FishStack_push(@, <<s.register[top][1]>>),
                     !.register[top] = None]

get_code(s) ==
  LET p == FishStack_pop(s.stack, Some(2))
  IN  IF p.raised THEN Raise(s)
      ELSE [s EXCEPT !.stack =
              FishStack_push(p.stack, <<FishCode_getitem(s, p.popped)>>)]

(* a set_code that takes the coordinates as (row, column) *)
set_code_row_first(s) ==
  LET p == FishStack_pop(s.stack, Some(3))
  IN  IF p.raised THEN Raise(s)
      ELSE FishCode_setitem([s EXCEPT !.stack = p.stack],
                            <<p.popped[3], p.popped[2]>>, p.popped[1])

set_code(s) ==
  LET p == FishStack_pop(s.stack, Some(3))
  IN  IF p.raised THEN Raise(s)
      ELSE FishCode_setitem([s EXCEPT !.stack = p.stack],
                            <<p.popped[2], p.popped[3]>>, p.popped[1])

end(s) == [s EXCEPT !.is_running = FALSE]

noop(s) == s

(* a string mode that either quote character closes *)
Quoted_any_quote(s) ==
  s.parse_mode # None /\ get_char(s, s.pos) \notin {ord("'"), ord("\"")}

(* the cell is pushed as text, not executed *)
Quoted(s) == s.parse_mode # None /\ s.parse_mode # Some(get_char(s, s.pos))

(* line 219: self.stack.push(ord(cmd)) *)
push_text(s) ==
  [s EXCEPT !.stack = FishStack_push(@, <<get_char(s, s.pos)>>)]

(* an unrecognized character passed over as a no-op *)
invalid_command_ignored(s) == s

(* line 222: the character is not in VALID_CHARS *)
invalid_command(s) == Raise(s)

(* a motion that wraps past the maximum only, not below 0 *)
Advance_no_low_wrap(s) ==
  LET d   == (1 + (IF s.skip THEN 1 ELSE 0))
               * (IF s.direction \in {"left", "up"} THEN -1 ELSE 1)
      col == s.pos[1]
      row == s.pos[2]
      w(v, m) == IF v > m THEN v - (m + 1) ELSE v
  IN  [s EXCEPT
         !.skip = FALSE,
         !.pos  = <<IF s.direction \in {"right", "left"}
                    THEN w(col + d, s.max_col) ELSE col,
                    IF s.direction \in {"up", "down"}
                    THEN w(row + d, s.max_row) ELSE row>>]

(* a motion that wraps over the whole extent of the bounding box *)
Advance_extent(s) ==
  LET d   == (1 + (IF s.skip THEN 1 ELSE 0))
               * (IF s.direction \in {"left", "up"} THEN -1 ELSE 1)
      col == s.pos[1]
      row == s.pos[2]
  IN  [s EXCEPT
         !.skip = FALSE,
         !.pos  = <<IF s.direction \in {"right", "left"}
                    THEN (col + d) % (s.max_col - s.min_col + 1) ELSE col,
                    IF s.direction \in {"up", "down"}
                    THEN (row + d) % (s.max_row - s.min_row + 1) ELSE row>>]

(* lines 226-232: the motion of the cycle *)
Advance(s) ==
  LET d   == (1 + (IF s.skip THEN 1 ELSE 0))
               * (IF s.direction \in {"left", "up"} THEN -1 ELSE 1)
      col == s.pos[1]
      row == s.pos[2]
  IN  [s EXCEPT
         !.skip = FALSE,
         !.pos  = <<IF s.direction \in {"right", "left"}
                    THEN (col + d) % (s.max_col + 1) ELSE col,
                    IF s.direction \in {"up", "down"}
                    THEN (row + d) % (s.max_row + 1) ELSE row>>]

(* a cycle that ends the run as a halt whatever was raised *)
next_cycle_swallow(t) ==
  IF t.exc # "none" \/ ~t.is_running THEN [t EXCEPT !.exc = "FishEndExecution"]
  ELSE Advance(t)

(* next_cycle from line 224 on, t being the state the instruction left *)
next_cycle(t) ==
  IF t.exc # "none" THEN t
  ELSE IF ~t.is_running THEN [t EXCEPT !.exc = "FishEndExecution"]
  ELSE Advance(t)

(* an initialize that loads the codebox on the first call only *)
initialize_codebox_once(s, inp, stk) ==
  LET c == IF "code" \in DOMAIN s THEN s ELSE FishCode_init(s.src_string)
  IN  [src_string |-> s.src_string,
       code |-> c.code, min_row |-> c.min_row, max_row |-> c.max_row,
       min_col |-> c.min_col, max_col |-> c.max_col,
       stack |-> FishStack_init(stk), register |-> <<None>>,
       fish_in |-> Reversed(parse_input(inp)), fish_out |-> <<>>,
       initialized |-> TRUE,
       pos |-> <<0, 0>>, direction |-> "right", parse_mode |-> None,
       is_running |-> TRUE, skip |-> FALSE, exc |-> "none", frac |-> FALSE]

(* Fish.initialize *)
initialize(s, inp, stk) ==
  LET c == FishCode_init(s.src_string)
  IN  [src_string |-> s.src_string,
       code |-> c.code, min_row |-> c.min_row, max_row |-> c.max_row,
       min_col |-> c.min_col, max_col |-> c.max_col,
       stack |-> FishStack_init(stk), register |-> <<None>>,
       fish_in |-> Reversed(parse_input(inp)), fish_out |-> <<>>,
       initialized |-> TRUE,
       pos |-> <<0, 0>>, direction |-> "right", parse_mode |-> None,
       is_running |-> TRUE, skip |-> FALSE, exc |-> "none", frac |-> FALSE]

\* ------------------------------------------------------------- runs
(* the sources, inputs and initial stacks of the runs explored *)
Chars ==
  {">","<","^","v","/","\\","|","_","#","x","!","?",".","+","-","*",",",
   "%","=",")","(","'","\"",":","~","$","@","}","{","r","l","[","]","o",
   "n","i","&","g","p",";"," ","0","1","2","a","f","z"}

(* every character alone on the torus, and every character before a halt *)
ShortSources == {<<a>> : a \in Chars} \cup {<<a, ";">> : a \in Chars}

LongSources ==
  { <<"[", "]", ";">>,
    <<"[", "&", "]", "&", ";">>,
    <<"&", "[", "&", "]", "&", "n", ";">>,
    <<"1", "[", "]", "]", ";">>,
    <<".", "1", "n", ";", "2", "n", ";">>,
    <<"!", ";", "1", "n", ";">>,
    <<"?", ";", "1", "n", ";">>,
    <<"?", "!", ";", "?", "n", ";">>,
    <<"'", ";", "/", "\"", "z", "'", "o", "o", ";">>,
    <<"\"", "'", " ", "!", "\"", "n", ";">>,
    <<"p", " ", ">", ";">>,
    <<"p", "<", " ", ";">>,
    <<"p", "v", "\n", ";", "^">>,
    <<"p", "g", "n", ";">>,
    <<"v", "<", "\n", ">", "^">>,
    <<"v", " ", "\n", "!", " ", "\n", ">", ";">>,
    <<"/", "1", "\n", "\\", "n", ";">>,
    <<"i", "i", "i", "o", "n", ";">>,
    <<"i", ":", "o", "n", "i", ";">>,
    <<"$", "@", "}", "{", "r", "l", ";">>,
    <<"}", "{", ";">>,
    <<"a", "f", "+", "f", "*", "n", ";">>,
    <<",", "n", ";">>,
    <<"%", "n", ";">>,
    <<"=", ")", "(", "n", ";">>,
    <<"-", ":", "~", "o", ";">>,
    <<"1", "0", "p", "o", ";">>,
    <<"x", "1", "\n", "2", ";">>,
    <<"#", "|", "_", ";">>,
    <<"l", "[", "l", "[", "l", "[", "]">>,
    <<"&", "]", "l", "n", ";">>,
    <<"p", " ">>,
    <<"p", "\n", " ">>,
    <<"p", "0", "0", "g", "n", ";">>,
    <<"'", ";", "'", "0", "0", "p">>,
    <<"g", " ", "n", ";">>,
    <<"2", "[", "}", "{", "$", "]", ";">>,
    <<"1", "@", ";">>,
    <<"n", " ", "z">> }

Sources == ShortSources \cup LongSources

StackVals == {-1, 0, 1, 2}

SeqsUpTo(S, n) == UNION {[1..k -> S] : k \in 0..n}

NoInput == [kind |-> "none", val |-> <<>>]

Inputs ==
  { NoInput,
    [kind |-> "str",  val |-> <<"a", ";">>],
    [kind |-> "iter", val |-> <<2, 0, 1>>] }

InitStacks ==
  {[kind |-> "iter", val |-> v] : v \in SeqsUpTo(StackVals, MaxInitLen)}
    \cup {NoInput}

(* the input matters to a source that reads it *)
InputsFor(src) ==
  IF \E k \in 1..Len(src) : src[k] = "i" THEN Inputs ELSE {NoInput}

(* the arguments <<inp, stack>> the calls of the engine built on src are given *)
CallArgs(src) ==
  IF src \in LongSources
  THEN InputsFor(src) \X InitStacks
  ELSE InputsFor(src) \X {k \in InitStacks : Len(k.val) < MaxInitLen}

\* ------------------------------------------------------------- state
InBounds(r) ==
  /\ ~r.frac
  /\ Len(r.stack) <= MaxFrames
  /\ \A i \in 1..Len(r.stack) :
       /\ Len(r.stack[i]) <= MaxLen
       /\ \A j \in 1..Len(r.stack[i]) :
            r.stack[i][j] \in -MaxVal..MaxVal
  /\ Len(r.fish_out) <= MaxOut

(* History of the last two cycles: the character at the pointer, whether  *)
(* it was pushed as text, the state the cycle started from (pre), the      *)
(* pointer and skip-flag its instruction left (mid) and its exception.     *)
HistEntry(t, r) ==
  [cmd |-> get_char(fish, fish.pos), quoted |-> Quoted(fish), pre |-> fish,
   mid |-> [pos |-> t.pos, skip |-> t.skip], exc |-> r.exc]

(* Fish(code) constructed, and the arguments its calls will be given *)
Init ==
  /\ fish \in {[src_string |-> src] : src \in Sources}
  /\ args \in CallArgs(fish.src_string)
  /\ call = "idle" /\ returned = None /\ hist = <<>> /\ prev = None

(* Fish.__call__(inp, stack) entered: initialize(inp, stack) *)
Call ==
  /\ call # "running"
  /\ fish' = initialize(fish, args[1], args[2])
  /\ InBounds(fish')
  /\ call' = "running" /\ returned' = None /\ hist' = <<>>
  /\ prev' = IF call = "idle" THEN None
             ELSE Some([fish |-> fish, call |-> call, returned |-> returned,
                        hist |-> hist])
  /\ UNCHANGED args

(* One turn of the loop of Fish.__call__: next_cycle, t being the state    *)
(* the instruction of the cycle left, and the except clause of the loop.   *)
Cycle(t) ==
  /\ fish' = next_cycle(t)
  /\ InBounds(fish')
  /\ hist' = (IF Len(hist) = 2 THEN Tail(hist) ELSE hist)
               \o <<HistEntry(t, fish')>>
  /\ call' = CASE fish'.exc = "none" -> "running"
               [] fish'.exc = "FishEndExecution" -> "returned"
               [] fish'.exc = "FishError" -> "raised"
  /\ returned' = IF fish'.exc = "FishEndExecution"
                 THEN Some(fish'.fish_out) ELSE None
  /\ UNCHANGED <<args, prev>>

(* the cycle executes (does not push as text) one of the characters cmds *)
Executes(cmds) ==
  call = "running" /\ ~Quoted(fish) /\ get_char(fish, fish.pos) \in cmds

CycleQuoted ==
  /\ call = "running" /\ Quoted(fish)
  /\ Cycle(push_text(fish))

CycleInvalid ==
  /\ call = "running" /\ ~Quoted(fish)
  /\ get_char(fish, fish.pos) \notin VALID_CHARS
  /\ Cycle(invalid_command(fish))

Cycle_right ==
  /\ Executes({ord(">")})
  /\ Cycle(right(fish))

Cycle_left ==
  /\ Executes({ord("<")})
  /\ Cycle(left(fish))

Cycle_up ==
  /\ Executes({ord("^")})
  /\ Cycle(up(fish))

Cycle_down ==
  /\ Executes({ord("v")})
  /\ Cycle(down(fish))

Cycle_m_forward ==
  /\ Executes({ord("/")})
  /\ Cycle(m_forward(fish))

Cycle_m_backward ==
  /\ Executes({ord("\\")})
  /\ Cycle(m_backward(fish))

Cycle_m_vertical ==
  /\ Executes({ord("|")})
  /\ Cycle(m_vertical(fish))

Cycle_m_horizontal ==
  /\ Executes({ord("_")})
  /\ Cycle(m_horizontal(fish))

Cycle_m_cross ==
  /\ Executes({ord("#")})
  /\ Cycle(m_cross(fish))

Cycle_tramp ==
  /\ Executes({ord("!")})
  /\ Cycle(tramp(fish))

Cycle_tramp_cond ==
  /\ Executes({ord("?")})
  /\ Cycle(tramp_cond(fish))

Cycle_jump ==
  /\ Executes({ord(".")})
  /\ Cycle(jump(fish))

Cycle_equals ==
  /\ Executes({ord("=")})
  /\ Cycle(equals(fish))

Cycle_greater ==
  /\ Executes({ord(")")})
  /\ Cycle(greater(fish))

Cycle_smaller ==
  /\ Executes({ord("(")})
  /\ Cycle(smaller(fish))

Cycle_single_quote ==
  /\ Executes({ord("'")})
  /\ Cycle(single_quote(fish))

Cycle_double_quote ==
  /\ Executes({ord("\"")})
  /\ Cycle(double_quote(fish))

Cycle_duplicate ==
  /\ Executes({ord(":")})
  /\ Cycle(duplicate(fish))

Cycle_remove ==
  /\ Executes({ord("~")})
  /\ Cycle(remove(fish))

Cycle_swap2 ==
  /\ Executes({ord("$")})
  /\ Cycle(swap2(fish))

Cycle_swap3 ==
  /\ Executes({ord("@")})
  /\ Cycle(swap3(fish))

Cycle_shiftr ==
  /\ Executes({ord("}")})
  /\ Cycle(shiftr(fish))

Cycle_shiftl ==
  /\ Executes({ord("{")})
  /\ Cycle(shiftl(fish))

Cycle_reverse ==
  /\ Executes({ord("r")})
  /\ Cycle(reverse(fish))

Cycle_length ==
  /\ Executes({ord("l")})
  /\ Cycle(length(fish))

Cycle_new_stack ==
  /\ Executes({ord("[")})
  /\ Cycle(new_stack(fish))

Cycle_del_stack ==
  /\ Executes({ord("]")})
  /\ Cycle(Fish_del_stack(fish))

Cycle_out_char ==
  /\ Executes({ord("o")})
  /\ Cycle(out_char(fish))

Cycle_out_num ==
  /\ Executes({ord("n")})
  /\ Cycle(out_num(fish))

Cycle_read_char ==
  /\ Executes({ord("i")})
  /\ Cycle(read_char(fish))

Cycle_do_register ==
  /\ Executes({ord("&")})
  /\ Cycle(do_register(fish))

Cycle_get_code ==
  /\ Executes({ord("g")})
  /\ Cycle(get_code(fish))

Cycle_set_code ==
  /\ Executes({ord("p")})
  /\ Cycle(set_code(fish))

Cycle_end ==
  /\ Executes({ord(";")})
  /\ Cycle(end(fish))

Cycle_m_random ==
  /\ Executes({ord("x")})
  /\ \E rnd \in 0..3 : Cycle(m_random(fish, rnd))

Cycle_noop ==
  /\ Executes({0, ord(" ")})
  /\ Cycle(noop(fish))

Cycle_literal ==
  /\ Executes(HexChars)
  /\ Cycle(literal(fish))

Cycle_arithmetic ==
  /\ Executes({ord("+"), ord("-"), ord("*"), ord(","), ord("%")})
  /\ Cycle(arithmetic(fish))

Next ==
  \/ Call
  \/ CycleQuoted
  \/ CycleInvalid
  \/ Cycle_right
  \/ Cycle_left
  \/ Cycle_up
  \/ Cycle_down
  \/ Cycle_m_forward
  \/ Cycle_m_backward
  \/ Cycle_m_vertical
  \/ Cycle_m_horizontal
  \/ Cycle_m_cross
  \/ Cycle_tramp
  \/ Cycle_tramp_cond
  \/ Cycle_jump
  \/ Cycle_equals
  \/ Cycle_greater
  \/ Cycle_smaller
  \/ Cycle_single_quote
  \/ Cycle_double_quote
  \/ Cycle_duplicate
  \/ Cycle_remove
  \/ Cycle_swap2
  \/ Cycle_swap3
  \/ Cycle_shiftr
  \/ Cycle_shiftl
  \/ Cycle_reverse
  \/ Cycle_length
  \/ Cycle_new_stack
  \/ Cycle_del_stack
  \/ Cycle_out_char
  \/ Cycle_out_num
  \/ Cycle_read_char
  \/ Cycle_do_register
  \/ Cycle_get_code
  \/ Cycle_set_code
  \/ Cycle_end
  \/ Cycle_m_random
  \/ Cycle_noop
  \/ Cycle_literal
  \/ Cycle_arithmetic

Spec == Init /\ [][Next]_vars

\* ------------------------------------------------------------- FishStack alone
(* pop and push of a FishStack object called directly, as the unit tests   *)
(* do: fish is the object (its attribute stack), returned the value the    *)
(* last call returned, hist the last two calls.                            *)
Frames == SeqsUpTo(StackVals, MaxInitLen)

InitStack ==
  /\ fish \in {[stack |-> <<f>>] : f \in Frames}
               \cup {[stack |-> <<f, g>>] : f \in {<<>>, <<2, 1>>}, g \in Frames}
  /\ args = <<>> /\ call = "idle" /\ returned = None /\ hist = <<>>
  /\ prev = None

Called(op, arg, ret) ==
  hist' = (IF Len(hist) = 2 THEN Tail(hist) ELSE hist)
            \o <<[op |-> op, arg |-> arg, pre |-> fish.stack, ret |-> ret]>>

(* pop(n), and pop() *)
Api_pop ==
  \E n \in {None} \cup {Some(k) : k \in -1..(MaxInitLen + 1)} :
    LET p == FishStack_pop(fish.stack, n)
    IN  /\ fish' = [fish EXCEPT !.stack = p.stack]
        /\ returned' = IF p.raised THEN None ELSE Some(p.popped)
        /\ Called("pop", n, IF p.raised THEN None ELSE Some(p.popped))
        /\ UNCHANGED <<args, call, prev>>

(* push of the values the last call returned *)
Api_push ==
  /\ returned # None
  /\ fish' = [fish EXCEPT !.stack = FishStack_push(@, returned[1])]
  /\ Len(Top(fish'.stack)) <= MaxLen
  /\ returned' = None
  /\ Called("push", returned, None)
  /\ UNCHANGED <<args, call, prev>>

NextStack ==
  \/ Api_pop
  \/ Api_push

SpecStack == InitStack /\ [][NextStack]_vars

\* ------------------------------------------------------------- properties
(* the last cycle (Spec) or call (SpecStack) *)
Last == hist[Len(hist)]

(* the last cycle executed the instruction c *)
Did(c) == hist # <<>> /\ ~Last.quoted /\ Last.cmd = ord(c)

(* the last cycle ran to its end: the instruction, then the motion *)
Moved == hist # <<>> /\ Last.exc = "none"

(* the frame that was active when the last cycle began *)
PreTop == Top(Last.pre.stack)

(* the n-th value from the top of that frame, 1 the topmost *)
PreVal(n) == PreTop[Len(PreTop) + 1 - n]

(* the position k cells ahead of p in the heading, on the torus [0, max] *)
Ahead(p, k) ==
  CASE fish.direction = "right" -> <<(p[1] + k) % (fish.max_col + 1), p[2]>>
    [] fish.direction = "left"  -> <<(p[1] - k) % (fish.max_col + 1), p[2]>>
    [] fish.direction = "down"  -> <<p[1], (p[2] + k) % (fish.max_row + 1)>>
    [] fish.direction = "up"    -> <<p[1], (p[2] - k) % (fish.max_row + 1)>>

(* C1: pop(n) with 0 <= n <= length of the active frame, followed          *)
(* immediately by push of the returned values, leaves every frame as it    *)
(* was before the pop.                                                     *)
C1_RoundTrip ==
  ( /\ Len(hist) = 2
    /\ hist[1].op = "pop" /\ hist[1].arg # None /\ hist[1].ret # None
    /\ hist[1].arg[1] >= 0 /\ hist[1].arg[1] <= Len(Top(hist[1].pre))
    /\ hist[2].op = "push" /\ hist[2].arg = hist[1].ret )
  => fish.stack = hist[1].pre

(* C2: `[` on a frame whose top value is a count n >= 0 with at least n    *)
(* values beneath it: the new active frame holds those n values in order,  *)
(* the frame beneath the remaining values in order, there is one more      *)
(* frame, and the new frame's register is empty.                           *)
C2_NewFrame ==
  ( /\ Did("[") /\ Len(PreTop) >= 1
    /\ PreVal(1) >= 0 /\ PreVal(1) <= Len(PreTop) - 1 )
  => LET n == PreVal(1)
         m == Len(PreTop) - 1 - n
         k == Len(Last.pre.stack)
     IN  /\ Last.exc = "none"
         /\ Len(fish.stack) = k + 1
         /\ fish.stack[k + 1] = SubSeq(PreTop, m + 1, m + n)
         /\ fish.stack[k] = SubSeq(PreTop, 1, m)
         /\ SubSeq(fish.stack, 1, k - 1) = SubSeq(Last.pre.stack, 1, k - 1)
         /\ fish.register = Append(Last.pre.register, None)

(* C3: `[` on the single frame s + [n], 0 <= n <= |s|, and then `]`, leave *)
(* the single frame s and as many register slots as before.                *)
C3_FrameRoundTrip ==
  ( /\ Len(hist) = 2
    /\ ~hist[1].quoted /\ hist[1].cmd = ord("[")
    /\ Did("]")
    /\ Len(hist[1].pre.stack) = 1 /\ Len(hist[1].pre.stack[1]) >= 1
    /\ LET f == hist[1].pre.stack[1]
       IN  f[Len(f)] >= 0 /\ f[Len(f)] <= Len(f) - 1 )
  => LET f == hist[1].pre.stack[1]
     IN  /\ Last.exc = "none"
         /\ fish.stack = <<SubSeq(f, 1, Len(f) - 1)>>
         /\ Len(fish.register) = Len(hist[1].pre.register)

(* C4: once initialized, whatever was executed or raised, there is at      *)
(* least one frame and exactly one register slot per frame; `]` on the     *)
(* only frame empties its values and its register and keeps the frame.     *)
C4_FramesAndRegisters ==
  call # "idle" =>
    /\ Len(fish.stack) >= 1
    /\ Len(fish.register) = Len(fish.stack)
    /\ (Did("]") /\ Len(Last.pre.stack) = 1)
         => (fish.stack = <<<<>>>> /\ fish.register = <<None>>)

(* C4 happens: `]` ran on the only frame, which held values and a filled *)
(* register, and left one empty frame.                                    *)
C4_Witness ==
  /\ Did("]") /\ Len(Last.pre.stack) = 1
  /\ PreTop # <<>> /\ Last.pre.register # <<None>>
  /\ fish.stack = <<<<>>>>

(* C5: a one-cell move from the maximum column (row) rightwards            *)
(* (downwards) ends on column (row) 0, one from column (row) 0 leftwards   *)
(* (upwards) ends on the maximum column (row); the other coordinate keeps  *)
(* its value.                                                              *)
C5_ToroidalWrap ==
  (Moved /\ ~Last.mid.skip) =>
    LET p == Last.mid.pos
    IN  /\ (fish.direction = "right" /\ p[1] = fish.max_col)
             => fish.pos = <<0, p[2]>>
        /\ (fish.direction = "left" /\ p[1] = 0)
             => fish.pos = <<fish.max_col, p[2]>>
        /\ (fish.direction = "down" /\ p[2] = fish.max_row)
             => fish.pos = <<p[1], 0>>
        /\ (fish.direction = "up" /\ p[2] = 0)
             => fish.pos = <<p[1], fish.max_row>>

(* C5 happens: a one-cell move upwards from row 0 of a box with several   *)
(* rows ended on the maximum row.                                          *)
C5_Witness ==
  /\ Moved /\ ~Last.mid.skip
  /\ fish.direction = "up" /\ Last.mid.pos[2] = 0
  /\ fish.max_row >= 1 /\ fish.pos[2] = fish.max_row

(* the heading-axis coordinate the last cycle left, wrapped modulo n *)
WrappedBy(nc, nr) ==
  LET p == Last.mid.pos
      k == IF Last.mid.skip THEN 2 ELSE 1
  IN  CASE fish.direction = "right" -> fish.pos = <<(p[1] + k) % nc, p[2]>>
        [] fish.direction = "left"  -> fish.pos = <<(p[1] - k) % nc, p[2]>>
        [] fish.direction = "down"  -> fish.pos = <<p[1], (p[2] + k) % nr>>
        [] fish.direction = "up"    -> fish.pos = <<p[1], (p[2] - k) % nr>>

(* C6, as stated: after every cycle that does not halt the heading-axis   *)
(* coordinate is the one the motion leads to, taken modulo the extent      *)
(* (max - min) + 1 of the bounding box as the cycle's instruction left it  *)
(* (wherever the wrapped range starts: the two differ by a multiple of the *)
(* extent + 1), and the other coordinate is unchanged.                     *)
C6_WrapExtent ==
  Moved =>
    LET p  == Last.mid.pos
        k  == IF Last.mid.skip THEN 2 ELSE 1
        nc == fish.max_col - fish.min_col + 1
        nr == fish.max_row - fish.min_row + 1
    IN  CASE fish.direction = "right" ->
               (fish.pos[1] - (p[1] + k)) % nc = 0 /\ fish.pos[2] = p[2]
          [] fish.direction = "left"  ->
               (fish.pos[1] - (p[1] - k)) % nc = 0 /\ fish.pos[2] = p[2]
          [] fish.direction = "down"  ->
               (fish.pos[2] - (p[2] + k)) % nr = 0 /\ fish.pos[1] = p[1]
          [] fish.direction = "up"    ->
               (fish.pos[2] - (p[2] - k)) % nr = 0 /\ fish.pos[1] = p[1]

(* C6, amended: the coordinate is wrapped modulo max + 1 of the bounding   *)
(* box as the cycle's instruction left it, whatever min is.                *)
C6_WrapMax ==
  Moved => WrappedBy(fish.max_col + 1, fish.max_row + 1)

(* C6 happens: after `p` extended the box to a negative column, a move    *)
(* rightwards from the maximum column wrapped to column 0.                 *)
C6_Witness ==
  /\ Moved /\ fish.min_col < 0
  /\ fish.direction = "right" /\ Last.mid.pos[1] = fish.max_col
  /\ fish.max_col >= 1 /\ fish.pos[1] = 0

(* C7, as stated: after `.` popped (x, y) the pointer is exactly (x, y).   *)
C7_JumpExact ==
  (Did(".") /\ Last.exc = "none") => fish.pos = <<PreVal(2), PreVal(1)>>

(* C7, amended: `.` pops (x, y) and sets the pointer to (x, y), and the    *)
(* motion of the same cycle then advances it one cell from there; heading  *)
(* and skip-flag are unchanged.                                            *)
C7_JumpThenMove ==
  (Did(".") /\ Len(PreTop) >= 2) =>
    /\ Last.exc = "none"
    /\ Last.mid.pos = <<PreVal(2), PreVal(1)>>
    /\ fish.pos = Ahead(<<PreVal(2), PreVal(1)>>, 1)
    /\ Top(fish.stack) = SubSeq(PreTop, 1, Len(PreTop) - 2)
    /\ fish.direction = Last.pre.direction
    /\ fish.skip = Last.pre.skip

(* C7 happens: `.` jumped to (x, y) and the pointer ended one cell to the *)
(* right of it.                                                            *)
C7_Witness ==
  /\ Did(".") /\ Last.exc = "none"
  /\ fish.max_col >= 2
  /\ fish.pos # <<PreVal(2), PreVal(1)>>
  /\ fish.pos = <<PreVal(2) + 1, PreVal(1)>>

(* C8: `!`, and `?` exactly when the value it pops is 0, make the pointer  *)
(* advance 2 cells, so that the cell immediately ahead is not the next one *)
(* executed; `?` popping a non-zero value advances 1 cell; the skip-flag   *)
(* is false at the start of every cycle.                                   *)
C8_Skip ==
  /\ call # "idle" => ~fish.skip
  /\ (Did("!") /\ Moved) =>
       /\ Last.mid.skip
       /\ fish.pos = Ahead(Last.pre.pos, 2)
  /\ (Did("?") /\ Len(PreTop) >= 1) =>
       /\ Moved
       /\ Last.mid.skip = (PreVal(1) = 0)
       /\ fish.pos = Ahead(Last.pre.pos, IF PreVal(1) = 0 THEN 2 ELSE 1)
  /\ (Moved /\ Last.mid.skip) =>
       /\ Last.cmd \in {ord("!"), ord("?")}
       /\ (fish.direction \in {"right", "left"} /\ fish.max_col >= 1)
            => fish.pos # Ahead(Last.pre.pos, 1)
       /\ (fish.direction \in {"up", "down"} /\ fish.max_row >= 1)
            => fish.pos # Ahead(Last.pre.pos, 1)

(* C8 happens: `?` popped 0 and the pointer advanced two columns.         *)
C8_Witness ==
  /\ Did("?") /\ Moved /\ PreVal(1) = 0
  /\ fish.max_col >= 2
  /\ fish.pos = <<Last.pre.pos[1] + 2, Last.pre.pos[2]>>

(* C9: in string-parse mode a cell whose character is not the quote that   *)
(* opened the mode has its code point pushed and nothing else happens but  *)
(* the motion; the mode ends only on that same quote character; a quote    *)
(* executed outside the mode opens it, keyed to that character.            *)
C9_StringMode ==
  hist # <<>> =>
    /\ (Last.pre.parse_mode # None /\ Last.cmd # Last.pre.parse_mode[1]) =>
         /\ Moved
         /\ Last.cmd = FishCode_getitem(Last.pre, Last.pre.pos) % 65536
         /\ fish.stack =
              [Last.pre.stack EXCEPT ![Len(Last.pre.stack)] = Append(@, Last.cmd)]
         /\ fish.parse_mode = Last.pre.parse_mode
         /\ fish.direction = Last.pre.direction
         /\ fish.skip = Last.pre.skip
         /\ Last.mid.pos = Last.pre.pos
         /\ fish.register = Last.pre.register
         /\ fish.code = Last.pre.code
         /\ <<fish.min_col, fish.max_col, fish.min_row, fish.max_row>> =
              <<Last.pre.min_col, Last.pre.max_col,
                Last.pre.min_row, Last.pre.max_row>>
         /\ fish.fish_out = Last.pre.fish_out
         /\ fish.fish_in = Last.pre.fish_in
         /\ fish.is_running = Last.pre.is_running
    /\ (Last.pre.parse_mode # None /\ Last.cmd = Last.pre.parse_mode[1]) =>
         fish.parse_mode = None
    /\ (Last.pre.parse_mode = None /\ Last.cmd \in {ord("'"), ord("\"")}) =>
         fish.parse_mode = Some(Last.cmd)
    /\ fish.parse_mode \in {None, Some(ord("'")), Some(ord("\""))}

(* C9 happens: inside a string opened by a single quote, `;` and then a   *)
(* mirror were pushed as data and the run went on rightwards.              *)
C9_Witness ==
  /\ Len(hist) = 2
  /\ hist[1].pre.parse_mode = Some(ord("'")) /\ hist[1].cmd = ord(";")
  /\ hist[2].pre.parse_mode = Some(ord("'")) /\ hist[2].cmd = ord("/")
  /\ call = "running" /\ fish.direction = "right"

(* the number of values the instruction c needs on the active frame *)
Needs(c) ==
  IF c \in {ord("@"), ord("p")} THEN 3
  ELSE IF c \in {ord("."), ord("+"), ord("-"), ord("*"), ord(","), ord("%"),
                 ord("="), ord(")"), ord("("), ord("$"), ord("g")} THEN 2
  ELSE IF c \in {ord("?"), ord(":"), ord("~"), ord("["), ord("o"), ord("n")}
  THEN 1 ELSE 0

(* C10: the call returns an output only in a cycle that executes `;`       *)
(* outside string-parse mode, the pointer does not move in that cycle, and *)
(* a cycle with an unrecognized instruction, too few values or a division  *)
(* by zero raises the error and never ends as a halt with an output.       *)
C10_Halt ==
  /\ returned # None => call = "returned"
  /\ call = "returned" =>
       /\ Did(";") /\ Last.pre.parse_mode = None
       /\ Last.exc = "FishEndExecution"
       /\ fish.pos = Last.pre.pos
       /\ returned = Some(fish.fish_out)
  /\ (hist # <<>> /\ ~Last.quoted) =>
       /\ Last.cmd = ord(";") => call = "returned"
       /\ Last.cmd \notin VALID_CHARS => Last.exc = "FishError"
       /\ Len(PreTop) < Needs(Last.cmd) => Last.exc = "FishError"
       /\ ( /\ Last.cmd \in {ord(","), ord("%")}
            /\ Len(PreTop) >= 2 /\ PreVal(1) = 0 ) => Last.exc = "FishError"
  /\ (hist # <<>> /\ Last.exc = "FishError") =>
       (call = "raised" /\ returned = None)

(* C10 happens: the call returned a non-empty output in a cycle that      *)
(* executed `;`.                                                           *)
C10_Witness ==
  /\ call = "returned" /\ Did(";")
  /\ returned # None /\ returned[1] # <<>>

(* the k-th element of the input the call was given: the code point of the *)
(* k-th character of a string, the k-th value of a sequence                *)
Supplied(k) ==
  IF args[1].kind = "str" THEN ord(args[1].val[k]) ELSE args[1].val[k]

(* how many elements of the input the state s has consumed *)
Consumed(s) == Len(args[1].val) - Len(s.fish_in)

(* C11: a run starts with nothing consumed, only `i` consumes input, and   *)
(* an `i` executed after k elements were consumed pushes element k + 1 of  *)
(* the supplied input and consumes it, or pushes -1 once the input is      *)
(* exhausted; it never fails.                                              *)
C11_Input ==
  /\ (call = "running" /\ hist = <<>>) => Consumed(fish) = 0
  /\ (hist # <<>> /\ ~Did("i")) => fish.fish_in = Last.pre.fish_in
  /\ Did("i") =>
       LET k == Consumed(Last.pre)
           n == Len(args[1].val)
       IN  /\ Moved
           /\ k >= 0 /\ k <= n
           /\ Top(fish.stack) =
                Append(PreTop, IF k < n THEN Supplied(k + 1) ELSE -1)
           /\ Consumed(fish) = (IF k < n THEN k + 1 ELSE n)
           /\ SubSeq(fish.stack, 1, Len(fish.stack) - 1) =
                SubSeq(Last.pre.stack, 1, Len(Last.pre.stack) - 1)

(* C11 happens: the third `i` of a run pushed the third, and last, value   *)
(* of the input sequence, which differs from the first two.                *)
C11_Witness ==
  /\ Did("i") /\ Consumed(Last.pre) = 2 /\ Len(args[1].val) = 3
  /\ Supplied(3) \notin {Supplied(1), Supplied(2)}
  /\ Top(fish.stack)[Len(Top(fish.stack))] = Supplied(3)
  /\ fish.fish_in = <<>>

(* the number a sequence of decimal digit characters denotes *)
RECURSIVE DigitsValue(_)
DigitsValue(d) ==
  IF d = <<>> THEN 0
  ELSE 10 * DigitsValue(SubSeq(d, 1, Len(d) - 1)) + (d[Len(d)] - ord("0"))

(* txt is the decimal numeral of the integer n: a minus sign if n < 0,     *)
(* then digits without a leading zero                                      *)
IsNumeral(txt, n) ==
  LET d == IF n < 0 THEN Tail(txt) ELSE txt
  IN  /\ Len(txt) >= 1
      /\ n < 0 => txt[1] = ord("-")
      /\ Len(d) >= 1
      /\ \A i \in 1..Len(d) : d[i] \in ord("0")..ord("9")
      /\ Len(d) > 1 => d[1] # ord("0")
      /\ DigitsValue(d) = (IF n < 0 THEN -n ELSE n)

(* what the last cycle appended to the output *)
Appended ==
  SubSeq(fish.fish_out, Len(Last.pre.fish_out) + 1, Len(fish.fish_out))

(* C12: a run starts with an empty output; the output a cycle leaves is    *)
(* the output it started from with something appended: one character, the  *)
(* popped value modulo 65536, by `o`, the decimal numeral of the popped    *)
(* value by `n`, nothing by anything else; the string returned at halt is  *)
(* that accumulation.                                                      *)
C12_Output ==
  /\ (call = "running" /\ hist = <<>>) => fish.fish_out = <<>>
  /\ call = "returned" => returned = Some(fish.fish_out)
  /\ hist # <<>> =>
       /\ Len(fish.fish_out) >= Len(Last.pre.fish_out)
       /\ SubSeq(fish.fish_out, 1, Len(Last.pre.fish_out)) = Last.pre.fish_out
       /\ IF Did("o") /\ Len(PreTop) >= 1
          THEN Appended = <<PreVal(1) % 65536>>
          ELSE IF Did("n") /\ Len(PreTop) >= 1
          THEN IsNumeral(Appended, PreVal(1))
          ELSE Appended = <<>>

(* C12 happens: `n` appended the numeral of a negative number to an output *)
(* that `o` had begun, and the run then returned the two together.         *)
C12_Witness ==
  /\ call = "returned" /\ Len(hist) = 2
  /\ ~hist[1].quoted /\ hist[1].cmd = ord("n")
  /\ Len(hist[1].pre.fish_out) = 1
  /\ returned = Some(hist[1].pre.fish_out \o <<ord("-"), ord("1")>>)

(* the bounding box of the state s, as <<min_col, max_col, min_row, max_row>> *)
Box(s) == <<s.min_col, s.max_col, s.min_row, s.max_row>>

(* the position q lies inside the bounding box of the state s *)
InBox(s, q) ==
  /\ s.min_col <= q[1] /\ q[1] <= s.max_col
  /\ s.min_row <= q[2] /\ q[2] <= s.max_row

(* C13: once the source is loaded the bounding box contains (0, 0) and     *)
(* every cell written by the load or by `p`; a cycle never moves a bound   *)
(* inward, and a cycle that is not a `p` (a `g`, any dispatch) leaves the  *)
(* bounds as they were.                                                    *)
C13_BoundingBox ==
  call # "idle" =>
    /\ InBox(fish, <<0, 0>>)
    /\ \A q \in DOMAIN fish.code : InBox(fish, q)
    /\ hist # <<>> =>
         /\ fish.min_col <= Last.pre.min_col
         /\ fish.max_col >= Last.pre.max_col
         /\ fish.min_row <= Last.pre.min_row
         /\ fish.max_row >= Last.pre.max_row
         /\ ~Did("p") => Box(fish) = Box(Last.pre)
         /\ (Did("p") /\ Len(PreTop) >= 3) =>
              /\ <<PreVal(2), PreVal(1)>> \in DOMAIN fish.code
              /\ InBox(fish, <<PreVal(2), PreVal(1)>>)

(* C13 happens: one `p` wrote left of and below the box, so that the       *)
(* minimum column fell and the maximum row rose.                           *)
C13_Witness ==
  /\ Did("p") /\ Moved
  /\ fish.min_col < Last.pre.min_col /\ fish.max_row > Last.pre.max_row
  /\ <<PreVal(2), PreVal(1)>> = <<fish.min_col, fish.max_row>>

(* the value of the cell q in the state s, 0 for a cell never written *)
Cell(s, q) == IF q \in DOMAIN s.code THEN s.code[q] ELSE 0

(* the cycle h was a `p` that had its three values *)
Wrote(h) ==
  ~h.quoted /\ h.cmd = ord("p") /\ Len(Top(h.pre.stack)) >= 3

(* the cell the `p` of the cycle h wrote, and the value it wrote there *)
WrittenCell(h) ==
  LET f == Top(h.pre.stack) IN <<f[Len(f) - 1], f[Len(f)]>>

WrittenValue(h) ==
  LET f == Top(h.pre.stack) IN f[Len(f) - 2]

(* C14: `p` popping (v, x, y) leaves v in the cell (x, y) and changes no   *)
(* other cell; no other cycle changes a cell, so v stays there until a     *)
(* later `p` writes (x, y); `g` of (x, y) pushes what the cell holds; the  *)
(* pointer standing on the cell dispatches the character v mod 65536, also *)
(* on a cell it has passed before: a written `;` halts the run, a          *)
(* character that is no instruction raises the error.                      *)
C14_SelfModification ==
  hist # <<>> =>
    /\ Wrote(Last) =>
         /\ Moved
         /\ DOMAIN fish.code = DOMAIN Last.pre.code \cup {WrittenCell(Last)}
         /\ fish.code[WrittenCell(Last)] = WrittenValue(Last)
         /\ \A q \in DOMAIN Last.pre.code \ {WrittenCell(Last)} :
              fish.code[q] = Last.pre.code[q]
    /\ ~Wrote(Last) => fish.code = Last.pre.code
    /\ (Did("g") /\ Len(PreTop) >= 2) =>
         /\ Moved
         /\ Top(fish.stack) =
              Append(SubSeq(PreTop, 1, Len(PreTop) - 2),
                     Cell(Last.pre, <<PreVal(2), PreVal(1)>>))
    /\ ( /\ Len(hist) = 2 /\ Wrote(hist[1])
         /\ Last.pre.pos = WrittenCell(hist[1]) /\ ~Last.quoted ) =>
         /\ Last.cmd = WrittenValue(hist[1]) % 65536
         /\ Last.cmd = ord(";") => call = "returned"
         /\ Last.cmd \notin VALID_CHARS => Last.exc = "FishError"

(* C14 happens: `p` wrote `;` over the cell (0, 0), which the pointer had  *)
(* passed and which the source had loaded with another character, and the  *)
(* next cycle, back on (0, 0), halted the run.                             *)
C14_Witness ==
  /\ Len(hist) = 2 /\ Wrote(hist[1])
  /\ WrittenCell(hist[1]) = <<0, 0>> /\ WrittenValue(hist[1]) = ord(";")
  /\ hist[1].pre.code[<<0, 0>>] # ord(";")
  /\ hist[1].pre.pos # <<0, 0>>
  /\ Last.pre.pos = <<0, 0>> /\ call = "returned"

(* the cell q was blank when the last cycle began: never written, or       *)
(* holding the space the source text loaded into it                        *)
Blank(q) ==
  \/ q \notin DOMAIN Last.pre.code
  \/ /\ q \in DOMAIN FishCode_init(fish.src_string).code
     /\ FishCode_init(fish.src_string).code[q] = ord(" ")
     /\ Last.pre.code[q] = ord(" ")

(* C15: `g` pops (x, y) and pushes the value of the cell (x, y), which is  *)
(* 0 for a blank cell: one never written, or one holding a space loaded    *)
(* from the source text.                                                   *)
C15_GetBlank ==
  (Did("g") /\ Len(PreTop) >= 2) =>
    LET q == <<PreVal(2), PreVal(1)>>
    IN  /\ Moved
        /\ Top(fish.stack) =
             Append(SubSeq(PreTop, 1, Len(PreTop) - 2),
                    IF Blank(q) THEN 0 ELSE Last.pre.code[q])

(* how often the value v occurs in the sequence f *)
Count(f, v) == Cardinality({i \in 1..Len(f) : f[i] = v})

(* g holds the values of f, each as often as f does *)
Permuted(f, g) ==
  /\ Len(g) = Len(f)
  /\ \A i \in 1..Len(f) : Count(g, f[i]) = Count(f, f[i])

(* C16: `$` exchanges the top two values, `@` moves the top value beneath  *)
(* the next two, `}` moves the last value to the front and `{` the first   *)
(* to the end (a frame of length 0 or 1 stays as it is); each keeps the    *)
(* frame's length and values and the other frames, and `}` followed by `{` *)
(* restores the frame.                                                     *)
C16_Permutations ==
  hist # <<>> =>
    LET f == PreTop
        n == Len(PreTop)
        g == Top(fish.stack)
    IN  /\ (Did("$") /\ n >= 2) =>
             (Moved /\ g = SubSeq(f, 1, n - 2) \o <<f[n], f[n - 1]>>)
        /\ (Did("@") /\ n >= 3) =>
             (Moved /\ g = SubSeq(f, 1, n - 3) \o <<f[n], f[n - 2], f[n - 1]>>)
        /\ Did("}") =>
             (Moved /\ g = IF n <= 1 THEN f
                           ELSE <<f[n]>> \o SubSeq(f, 1, n - 1))
        /\ Did("{") =>
             (Moved /\ g = IF n <= 1 THEN f
                           ELSE SubSeq(f, 2, n) \o <<f[1]>>)
        /\ ((Did("$") \/ Did("@") \/ Did("}") \/ Did("{")) /\ Moved) =>
             /\ Permuted(f, g)
             /\ Len(fish.stack) = Len(Last.pre.stack)
             /\ SubSeq(fish.stack, 1, Len(fish.stack) - 1) =
                  SubSeq(Last.pre.stack, 1, Len(Last.pre.stack) - 1)
        /\ ( /\ Len(hist) = 2 /\ ~hist[1].quoted /\ hist[1].cmd = ord("}")
             /\ Did("{") ) => g = Top(hist[1].pre.stack)

(* C16 happens: above another frame that holds a value, `}` and then `{`   *)
(* rotated a frame of two different values and restored it.                *)
C16_Witness ==
  /\ Len(hist) = 2 /\ ~hist[1].quoted /\ hist[1].cmd = ord("}") /\ Did("{")
  /\ Len(fish.stack) = 2 /\ fish.stack[1] # <<>>
  /\ Len(PreTop) = 2 /\ PreTop[1] # PreTop[2]
  /\ Top(fish.stack) = <<PreTop[2], PreTop[1]>>
  /\ Top(fish.stack) = Top(hist[1].pre.stack)

(* C17: `,` or `%` popping (x, y) with y = 0 raises the error of the       *)
(* engine, the one too few values raise as well; the pair is gone and no   *)
(* result is pushed, the output and the pointer stay as they were, and the *)
(* call ends raised, not returned.                                         *)
C17_DivisionByZero ==
  (Did(",") \/ Did("%")) =>
    /\ Len(PreTop) < 2 => Last.exc = "FishError"
    /\ (Len(PreTop) >= 2 /\ PreVal(1) = 0) =>
         /\ Last.exc = "FishError"
         /\ call = "raised" /\ returned = None
         /\ Top(fish.stack) = SubSeq(PreTop, 1, Len(PreTop) - 2)
         /\ SubSeq(fish.stack, 1, Len(fish.stack) - 1) =
              SubSeq(Last.pre.stack, 1, Len(Last.pre.stack) - 1)
         /\ fish.fish_out = Last.pre.fish_out
         /\ fish.pos = Last.pre.pos
         /\ fish.is_running

(* C17 happens: `%` popped a non-zero dividend and the divisor 0 from a    *)
(* frame of three values and the call ended raised.                        *)
C17_Witness ==
  /\ Did("%") /\ Len(PreTop) = 3 /\ PreVal(1) = 0 /\ PreVal(2) # 0
  /\ call = "raised" /\ Len(Top(fish.stack)) = 1

(* C18: outside string-parse mode the cycle dispatches on the character    *)
(* whose code point is the cell value modulo 65536; a character that is no *)
(* instruction raises the error and leaves every attribute of the engine   *)
(* as it was; a space or the null character (a cell holding 0 or never     *)
(* written) changes nothing but the pointer, which advances one cell.      *)
C18_Dispatch ==
  (hist # <<>> /\ ~Last.quoted) =>
    /\ Last.cmd = Cell(Last.pre, Last.pre.pos) % 65536
    /\ Last.cmd \notin VALID_CHARS =>
         /\ Last.exc = "FishError" /\ call = "raised" /\ returned = None
         /\ fish = [Last.pre EXCEPT !.exc = "FishError"]
    /\ Last.cmd \in {ord(" "), 0} =>
         /\ Moved
         /\ fish = [Last.pre EXCEPT !.pos = Ahead(Last.pre.pos, 1)]

(* C18 happens: the pointer crossed a cell never written as a no-op and    *)
(* then stood on a cell holding -1, the character 65535, which raised.     *)
C18_Witness ==
  /\ Len(hist) = 2 /\ ~hist[1].quoted /\ ~Last.quoted
  /\ hist[1].cmd = 0 /\ hist[1].pre.pos \notin DOMAIN hist[1].pre.code
  /\ Last.pre.pos # hist[1].pre.pos
  /\ Cell(Last.pre, Last.pre.pos) = -1 /\ Last.cmd = 65535
  /\ call = "raised"

(* the state in which the first call of a newly built engine starts *)
FirstStart ==
  initialize([src_string |-> fish.src_string], args[1], args[2])

(* the codebox of the state s holds no `x` *)
NoRandom(s) ==
  \A q \in DOMAIN s.code : s.code[q] % 65536 # ord("x")

(* C19: every call of the engine, the first or a later one, starts in the  *)
(* state the first call starts in, whatever the call before left in the    *)
(* codebox, stacks, registers, pointer, heading, flags, input and output;  *)
(* and a call of a program holding no `x` ends as the call before it did,  *)
(* in the same state, after the same last cycles, with the same output.    *)
C19_RunIsolation ==
  /\ (call = "running" /\ hist = <<>>) => fish = FirstStart
  /\ ( /\ prev # None /\ call \in {"returned", "raised"}
       /\ NoRandom(FirstStart) /\ NoRandom(fish) /\ NoRandom(prev[1].fish) ) =>
       /\ call = prev[1].call
       /\ returned = prev[1].returned
       /\ fish = prev[1].fish
       /\ hist = prev[1].hist

(* C19 happens: a second call returned the non-empty output of the call    *)
(* before it, which had left a codebox that `p` had changed.               *)
C19_Witness ==
  /\ prev # None /\ call = "returned"
  /\ NoRandom(FirstStart)
  /\ prev[1].fish.code # FirstStart.code
  /\ returned # Some(<<>>) /\ returned = prev[1].returned

(* the cycle h executed the instruction c *)
Was(h, c) == ~h.quoted /\ h.cmd = ord(c)

(* C20: `&` with the active frame's register empty pops one value into     *)
(* it, with the register occupied pushes its value and empties it, so that *)
(* two `&` restore the frame and the register, which is empty again if it  *)
(* was empty before the first; `&` leaves the frames and                   *)
(* registers beneath as they are, `[` adds an empty register above them,   *)
(* `]` on an upper frame removes that frame's register only, no other      *)
(* instruction changes a register, and an `&` right after such a `]`       *)
(* pushes the value that was stored in the register beneath.               *)
C20_Register ==
  hist # <<>> =>
    LET r == Last.pre.register
        k == Len(Last.pre.register)
        f == PreTop
    IN  /\ (Did("&") /\ r[k] = None /\ Len(f) >= 1) =>
             /\ Moved
             /\ fish.register = [r EXCEPT ![k] = Some(PreVal(1))]
             /\ Top(fish.stack) = SubSeq(f, 1, Len(f) - 1)
        /\ (Did("&") /\ r[k] # None) =>
             /\ Moved
             /\ fish.register = [r EXCEPT ![k] = None]
             /\ Top(fish.stack) = Append(f, r[k][1])
        /\ Did("&") =>
             /\ Len(fish.stack) = Len(Last.pre.stack)
             /\ SubSeq(fish.stack, 1, Len(fish.stack) - 1) =
                  SubSeq(Last.pre.stack, 1, Len(Last.pre.stack) - 1)
             /\ SubSeq(fish.register, 1, k - 1) = SubSeq(r, 1, k - 1)
        /\ (Did("[") /\ Moved) => fish.register = Append(r, None)
        /\ (Did("[") /\ ~Moved) => fish.register = r
        /\ (Did("]") /\ k > 1) => fish.register = SubSeq(r, 1, k - 1)
        /\ ~(Did("&") \/ Did("[") \/ Did("]")) => fish.register = r
        /\ ( /\ Len(hist) = 2 /\ Was(hist[1], "&") /\ hist[1].exc = "none"
             /\ Did("&") /\ Moved ) =>
             /\ Top(fish.stack) = Top(hist[1].pre.stack)
             /\ fish.register = hist[1].pre.register
             /\ hist[1].pre.register[k] = None => fish.register[k] = None
        /\ ( /\ Len(hist) = 2 /\ Was(hist[1], "]")
             /\ Len(hist[1].pre.register) > 1
             /\ hist[1].pre.register[Len(hist[1].pre.register) - 1] # None
             /\ Did("&") ) =>
             Top(fish.stack) =
               Append(f, hist[1].pre.register[Len(hist[1].pre.register) - 1][1])

(* C20 happens: with both registers occupied by different values, `]`      *)
(* removed the upper frame and the `&` after it pushed the value of the    *)
(* register beneath.                                                       *)
C20_Witness ==
  /\ Len(hist) = 2 /\ Was(hist[1], "]") /\ Did("&") /\ Moved
  /\ Len(hist[1].pre.register) = 2
  /\ hist[1].pre.register[1] # None /\ hist[1].pre.register[2] # None
  /\ hist[1].pre.register[1] # hist[1].pre.register[2]
  /\ Top(fish.stack) = Append(PreTop, hist[1].pre.register[1][1])
  /\ fish.register = <<None>>

(* the call h was pop(n) with the number n given *)
Popped(h) == h.op = "pop" /\ h.arg # None

(* C21: pop(n) with n greater than the length of the active frame raises   *)
(* the error and leaves every frame as it was; with 1 <= n <= length it    *)
(* returns the last n values of the active frame in their order and leaves *)
(* the values beneath them and the other frames as they were.              *)
C21_Pop ==
  (hist # <<>> /\ Popped(Last)) =>
    LET n   == Last.arg[1]
        f   == Top(Last.pre)
        len == Len(Top(Last.pre))
    IN  /\ n > len => (Last.ret = None /\ fish.stack = Last.pre)
        /\ (1 <= n /\ n <= len) =>
             /\ Last.ret = Some(SubSeq(f, len - n + 1, len))
             /\ Top(fish.stack) = SubSeq(f, 1, len - n)
             /\ Len(fish.stack) = Len(Last.pre)
             /\ SubSeq(fish.stack, 1, Len(fish.stack) - 1) =
                  SubSeq(Last.pre, 1, Len(Last.pre) - 1)

(* C21 happens: above another frame that holds values, pop(4) failed on a  *)
(* frame of three different values and pop(2) then returned its last two,  *)
(* leaving the first.                                                      *)
C21_Witness ==
  /\ Len(hist) = 2 /\ Popped(hist[1]) /\ Popped(Last)
  /\ hist[1].arg = Some(4) /\ hist[1].ret = None
  /\ Last.arg = Some(2) /\ Len(Last.pre) = 2 /\ Last.pre[1] # <<>>
  /\ Len(Top(Last.pre)) = 3
  /\ Cardinality({Top(Last.pre)[i] : i \in 1..3}) = 3
  /\ Last.ret = Some(<<Top(Last.pre)[2], Top(Last.pre)[3]>>)
  /\ fish.stack = <<Last.pre[1], <<Top(Last.pre)[1]>>>>

(* C22: at the start of every cycle of a run, whatever was executed before *)
(* (jumps by `.` and writes by `p` included), the pointer lies inside the  *)
(* bounding box of the codebox.                                            *)
C22_PointerContained ==
  call = "running" => InBox(fish, fish.pos)

====
